---- MODULE Spec2Model ----
(***************************************************************************)
(* Model of the abuse-mitigation gate (rate_limits / ip_blocks tables,     *)
(* in-memory ipAttempts map, Express middlewares) of backend/server.js and *)
(* backend/database/schema.js, and of the client event queue of            *)
(* analytics/analytics.js.                                                 *)
(*                                                                         *)
(* Time is an integer number of ticks.  JavaScript Date values are integer *)
(* milliseconds and toISOString()/new Date(str) round-trip them without    *)
(* loss, so a stored ISO timestamp is modelled by the integer it encodes.  *)
(* SQLite's datetime() and CURRENT_TIMESTAMP have one-second resolution:   *)
(* they are modelled by Datetime, which truncates to a multiple of         *)
(* Granule.  Durations are scaled down (one hour is HOUR ticks, the block  *)
(* duration half of it) so that the windows fit into MaxTime.              *)
(***************************************************************************)
EXTENDS Integers, Sequences, FiniteSets, TLC

VARIABLES
    now,          \* wall clock (Date.now() / new Date()), in ticks
    rate_limits,  \* table rate_limits: key -> [count, window_start, last_request]
    rlCfg,        \* (maxRequests, windowMs) the call site of each key passes
    rlLast,       \* the last checkRateLimit call: its key, branch, result
    rlRun,        \* per key: calls made since the row was created, and when
    uncleaned,    \* the table rate_limits as the same calls leave it when no cleanup runs
    uncleanedLast,\* branch and result of the last call on uncleaned
    allowedAt,    \* time -> calls on key "k" that returned allowed at that time (SpecBurst)
    ip_blocks,    \* table ip_blocks: ip -> [blocked_at, blocked_until, reason, attempts]
    ipAttempts,   \* Map ipAttempts: ip -> [count, lastAttempt]
    dbLast,       \* the last DatabaseManager call on ip_blocks and what it returned
    resp,         \* the last HTTP request of the security chain and its response
    gateUntil,    \* per ip: end of the block its threshold crossing started, or NoBlock
    iscrizioni,   \* table iscrizioni: the email_capitano of its rows
    regLast,      \* the last POST /api/iscrizione and what it did
    eventQueue,   \* this.eventQueue: event ids in enqueue order
    retryQueue,   \* this.retryQueue
    isOnline,     \* this.isOnline
    eventAttempts,\* event.attempts of every event
    inFlight,     \* the running flushQueue/retryFailedEvents calls: what each has still
                  \* to send, its head being the event whose fetch is pending
    retryTimers,  \* pending setTimeout(() => this.retryFailedEvents(), ...) timers
    nextId,       \* events created so far
    sends,        \* per event: fetch calls made for it
    delivered,    \* per event: fetch calls that succeeded
    dropped,      \* events given up after the last retry
    flushes,      \* while sizeOnly: the flushes started so far (how many, and the
                  \* snapshot of the last one)
    sizeOnly,     \* the client was online from the start and only queueEvent flushed
    offlineQueued,\* events enqueued while offline
    reconnected,  \* events enqueued while offline that have seen an 'online' event
    visibilityState,   \* document.visibilityState
    pageUnloaded,      \* beforeunload has fired: the page is gone
    hasSendBeacon,     \* navigator.sendBeacon exists
    beaconLog,         \* the navigator.sendBeacon calls made, in order
    visibilityChanges, \* visibilitychange events so far
    timed,             \* the due times of the retry timers are followed
    timerDue,          \* due time -> pending setTimeout callbacks due then (while timed)
    failedAt,          \* event -> time of its latest failed attempt that queued a retry
    analytics_pageviews, \* table analytics_pageviews: its rows, in id order
    analytics_events,    \* table analytics_events
    analytics_puzzle,    \* table analytics_puzzle
    analytics_form,      \* table analytics_form
    analytics_sessions,  \* table analytics_sessions: anonymous_id -> pages_viewed
    ingestLast           \* the latest analytics request and its response

rlVars == <<rate_limits, rlCfg, rlLast, rlRun, uncleaned, uncleanedLast, allowedAt>>

blockVars == <<ip_blocks, ipAttempts, dbLast, resp, gateUntil>>

regVars == <<iscrizioni, regLast>>

ingestVars ==
    <<analytics_pageviews, analytics_events, analytics_puzzle, analytics_form,
      analytics_sessions, ingestLast>>

retryClock == <<timed, timerDue, failedAt>>

pageVars == <<visibilityState, pageUnloaded, hasSendBeacon, beaconLog, visibilityChanges>>

clientVars ==
    <<eventQueue, retryQueue, isOnline, eventAttempts, inFlight, retryTimers, nextId, sends,
      delivered, dropped, flushes, sizeOnly, offlineQueued, reconnected, pageVars,
      retryClock>>

vars == <<now, rlVars, blockVars, regVars, ingestVars, clientVars>>

----------------------------------------------------------------------------
\* Bounds of the model

\* last tick of the clock
MaxTime == 6

\* largest maxRequests a call site passes
MaxRequests == 3

\* longest block a direct blockIP call asks for
MaxMinutes == 3

\* most block triggers the model records in one row's attempts
MaxBlockAttempts == 3

\* events the page creates
MaxEvents == 3

\* events the page creates when connectivity never changes (SpecOnline)
MaxBatched == 4

\* visibilitychange events in the life of a page
MaxVisibilityChanges == 3

\* config.batchSize (options.batchSize || 10)
batchSize == 2

\* config.retryAttempts (options.retryAttempts || 3)
retryAttempts == 1

----------------------------------------------------------------------------
\* Scaled program constants

\* ticks per SQLite second: the resolution of datetime() and CURRENT_TIMESTAMP
Granule == 2

\* 3600000 ms ('-1 hour'): the window of the call sites and the cleanup horizon
HOUR == 4

\* SECURITY_CONFIG.IP_BLOCK_DURATION_MINUTES (30 minutes, half of HOUR; a minute
\* of the model is one tick)
IP_BLOCK_DURATION_MINUTES == 2

\* SECURITY_CONFIG.MAX_SUSPICIOUS_ATTEMPTS
MAX_SUSPICIOUS_ATTEMPTS == 5

\* a result without the retryAfter field
NoRetryAfter == -1

\* gateUntil of an ip that crossed no threshold since it was last unblocked, and
\* blockedUntil of a result without the field
NoBlock == -1

\* datetime(x): x truncated to whole seconds
Datetime(t) == t - (t % Granule)

----------------------------------------------------------------------------
\* RATE LIMITING (schema.js)

\* window lengths the call sites of the model pass
Windows == {2, HOUR}

\* "k" is the key of any call site, "email:a" a key of the registration's email
\* check, which passes (1, 3600000)
RLKeys == {"k", "email:a"}

CallSites ==
    {c \in [RLKeys -> [maxRequests : 1..MaxRequests, windowMs : Windows]] :
        c["email:a"] = [maxRequests |-> 1, windowMs |-> HOUR]}

\* statements.upsertRateLimit: INSERT (key, 1, window_start, last_request)
\* ON CONFLICT(key) DO UPDATE SET count = count + 1, last_request
\* the upsert whose conflict branch writes back the count it found
upsertRateLimitLosesUpdate(rl, key, window_start, last_request) ==
    IF key \in DOMAIN rl
    THEN [rl EXCEPT ![key].last_request = last_request]
    ELSE rl @@ (key :> [count |-> 1, window_start |-> window_start,
                        last_request |-> last_request])

upsertRateLimit(rl, key, window_start, last_request) ==
    IF key \in DOMAIN rl
    THEN [rl EXCEPT ![key].count = @ + 1, ![key].last_request = last_request]
    ELSE rl @@ (key :> [count |-> 1, window_start |-> window_start,
                        last_request |-> last_request])

\* statements.resetRateLimit: UPDATE SET count = 1, window_start = ? WHERE key = ?
resetRateLimit(rl, window_start, key) ==
    IF key \in DOMAIN rl
    THEN [rl EXCEPT ![key].count = 1, ![key].window_start = window_start]
    ELSE rl

\* if (existingWindowStart < windowStart)
\* the window test that expires a window as soon as its length has passed
windowExpiredAtLength(existingWindowStart, windowStart) ==
    existingWindowStart <= windowStart

windowExpired(existingWindowStart, windowStart) ==
    existingWindowStart < windowStart

limitReachedOffByOne(count, maxRequests) == count > maxRequests

\* if (existing.count >= maxRequests)
limitReached(count, maxRequests) == count >= maxRequests

Allowed(remaining) ==
    [allowed |-> TRUE, remaining |-> remaining, retryAfter |-> NoRetryAfter]

\* DatabaseManager.checkRateLimit at time t: the new table, the branch taken
\* and the returned object
checkRateLimit(rl, key, maxRequests, windowMs, t) ==
    LET windowStart == t - windowMs IN
    IF key \notin DOMAIN rl
    THEN [db |-> upsertRateLimit(rl, key, t, t), branch |-> "insert",
          result |-> Allowed(maxRequests - 1)]
    ELSE LET existing == rl[key]
             existingWindowStart == existing.window_start
         IN  IF windowExpired(existingWindowStart, windowStart)
             THEN [db |-> resetRateLimit(rl, t, key), branch |-> "reset",
                   result |-> Allowed(maxRequests - 1)]
             ELSE IF limitReached(existing.count, maxRequests)
             THEN [db |-> rl, branch |-> "deny",
                   result |-> [allowed |-> FALSE, remaining |-> 0,
                               retryAfter |-> windowMs - (t - existingWindowStart)]]
             ELSE [db |-> upsertRateLimit(rl, key, existing.window_start, t),
                   branch |-> "increment",
                   result |-> Allowed(maxRequests - existing.count - 1)]

\* the cleanup with a horizon of one clock granule in place of one hour
deleteOldRateLimitsTooEarly(rl, t) ==
    LET kept == {k \in DOMAIN rl : ~(Datetime(rl[k].window_start) < Datetime(t) - Granule)}
    IN  [k \in kept |-> rl[k]]

\* statements.deleteOldRateLimits:
\* DELETE WHERE datetime(window_start) < datetime('now', '-1 hour')
deleteOldRateLimits(rl, t) ==
    LET kept == {k \in DOMAIN rl : ~(Datetime(rl[k].window_start) < Datetime(t) - HOUR)}
    IN  [k \in kept |-> rl[k]]

----------------------------------------------------------------------------
\* IP BLOCKING (schema.js)

IPs == {"ip1", "ip2"}

DefaultReason == "Troppi tentativi sospetti"

\* statements.deleteIPBlock: DELETE FROM ip_blocks WHERE ip = ?
deleteIPBlock(blocks, ip) ==
    [db |-> [i \in DOMAIN blocks \ {ip} |-> blocks[i]],
     changes |-> IF ip \in DOMAIN blocks THEN 1 ELSE 0]

\* statements.insertIPBlock: INSERT (ip, blocked_until, reason, attempts), blocked_at
\* by default; ON CONFLICT(ip) DO UPDATE SET blocked_at = CURRENT_TIMESTAMP,
\* blocked_until, reason, attempts = attempts + 1
insertIPBlock(blocks, ip, blocked_until, reason, attempts, t) ==
    IF ip \in DOMAIN blocks
    THEN [blocks EXCEPT ![ip] = [blocked_at |-> Datetime(t),
                                 blocked_until |-> blocked_until,
                                 reason |-> reason,
                                 attempts |-> @.attempts + 1]]
    ELSE blocks @@ (ip :> [blocked_at |-> Datetime(t), blocked_until |-> blocked_until,
                           reason |-> reason, attempts |-> attempts])

\* if (blockedUntil < new Date())
blockExpired(blockedUntil, t) == blockedUntil < t

NotBlocked ==
    [blocked |-> FALSE, blockedUntil |-> NoBlock, reason |-> "", attempts |-> 0]

isIPBlockedKeepsExpired(blocks, ip, t) ==
    IF ip \notin DOMAIN blocks
    THEN [db |-> blocks, result |-> NotBlocked]
    ELSE IF blockExpired(blocks[ip].blocked_until, t)
         THEN [db |-> blocks, result |-> NotBlocked]
         ELSE [db |-> blocks,
               result |-> [blocked |-> TRUE, blockedUntil |-> blocks[ip].blocked_until,
                           reason |-> blocks[ip].reason,
                           attempts |-> blocks[ip].attempts]]

\* DatabaseManager.isIPBlocked at time t
isIPBlocked(blocks, ip, t) ==
    IF ip \notin DOMAIN blocks
    THEN [db |-> blocks, result |-> NotBlocked]
    ELSE LET record == blocks[ip]
             blockedUntil == record.blocked_until
         IN  IF blockExpired(blockedUntil, t)
             THEN [db |-> deleteIPBlock(blocks, ip).db, result |-> NotBlocked]
             ELSE [db |-> blocks,
                   result |-> [blocked |-> TRUE, blockedUntil |-> record.blocked_until,
                               reason |-> record.reason, attempts |-> record.attempts]]

\* DatabaseManager.blockIP at time t: blockedUntil = Date.now() + minutes * 60 * 1000
\* (a minute of the model is one tick)
blockIP(blocks, ip, minutes, reason, t) ==
    LET blockedUntil == t + minutes
    IN  [db |-> insertIPBlock(blocks, ip, blockedUntil, reason, 1, t), result |-> TRUE]

\* DatabaseManager.unblockIP: result.changes > 0
unblockIP(blocks, ip) ==
    LET result == deleteIPBlock(blocks, ip)
    IN  [db |-> result.db, result |-> result.changes > 0]

\* statements.cleanupExpiredIPBlocks:
\* DELETE WHERE datetime(blocked_until) < datetime('now')
\* the sweep with <= in place of <: a block is swept within its last second
cleanupExpiredIPBlocksSweepsEarly(blocks, t) ==
    LET kept == {i \in DOMAIN blocks :
                    ~(Datetime(blocks[i].blocked_until) <= Datetime(t))}
    IN  [db |-> [i \in kept |-> blocks[i]],
         changes |-> Cardinality(DOMAIN blocks \ kept)]

cleanupExpiredIPBlocks(blocks, t) ==
    LET kept == {i \in DOMAIN blocks :
                    ~(Datetime(blocks[i].blocked_until) < Datetime(t))}
    IN  [db |-> [i \in kept |-> blocks[i]],
         changes |-> Cardinality(DOMAIN blocks \ kept)]

----------------------------------------------------------------------------
\* SECURITY MIDDLEWARES (server.js)

\* the message of ipBlockMiddleware (the accented u of the source written u)
BlockedMessage == "Accesso temporaneamente sospeso. Riprova piu tardi."

TooManyMessage == "Troppi tentativi. Accesso bloccato temporaneamente."

UnauthorizedMessage == "Non autorizzato"

ChainLimiterFirst(route) ==
    <<"generalLimiter", "blockGate">>
        \o (IF route = "public" THEN <<>> ELSE <<"adminAuth">>) \o <<"handler">>

\* The stages that can answer a request for route, in the order app.use and
\* app.<method> register them: ipBlockMiddleware, generalLimiter, for the admin
\* routes adminAuthMiddleware, and the route handler.
Chain(route) ==
    <<"blockGate", "generalLimiter">>
        \o (IF route = "public" THEN <<>> ELSE <<"adminAuth">>) \o <<"handler">>

\* the stages of chain that have run when stage answers
RanUpTo(chain, stage) ==
    SubSeq(chain, 1, CHOOSE i \in 1..Len(chain) : chain[i] = stage)

\* reasons a stored block carries: the default of blockIP, or one its caller gave
Reasons == {DefaultReason, "manual"}

thresholdReachedOffByOne(count) == count > MAX_SUSPICIOUS_ATTEMPTS

\* if (record.count >= SECURITY_CONFIG.MAX_SUSPICIOUS_ATTEMPTS)
thresholdReached(count) == count >= MAX_SUSPICIOUS_ATTEMPTS

\* incrementSuspiciousAttempts(ip) at time t, with the blockIP it calls
\* the increment that starts the counter of ip afresh when it blocks ip
incrementSuspiciousAttemptsResetsOnBlock(map0, blocks, ip, t) ==
    LET record == IF ip \in DOMAIN map0 THEN map0[ip]
                  ELSE [count |-> 0, lastAttempt |-> 0]
        updated == [count |-> record.count + 1, lastAttempt |-> t]
        map == [i \in DOMAIN map0 \cup {ip} |->
                   IF i = ip THEN updated ELSE map0[i]]
    IN  IF thresholdReached(updated.count)
        THEN [attempts |-> [map EXCEPT ![ip].count = 0],
              db |-> blockIP(blocks, ip, IP_BLOCK_DURATION_MINUTES, DefaultReason, t).db,
              result |-> TRUE]
        ELSE [attempts |-> map, db |-> blocks, result |-> FALSE]

\* the increment that keeps only the counter of ip in the map
incrementSuspiciousAttemptsForgetsOthers(map0, blocks, ip, t) ==
    LET record == IF ip \in DOMAIN map0 THEN map0[ip]
                  ELSE [count |-> 0, lastAttempt |-> 0]
        updated == [count |-> record.count + 1, lastAttempt |-> t]
        map == [i \in {ip} |-> updated]
    IN  IF thresholdReached(updated.count)
        THEN [attempts |-> map,
              db |-> blockIP(blocks, ip, IP_BLOCK_DURATION_MINUTES, DefaultReason, t).db,
              result |-> TRUE]
        ELSE [attempts |-> map, db |-> blocks, result |-> FALSE]

incrementSuspiciousAttempts(map0, blocks, ip, t) ==
    LET record == IF ip \in DOMAIN map0 THEN map0[ip]
                  ELSE [count |-> 0, lastAttempt |-> 0]
        updated == [count |-> record.count + 1, lastAttempt |-> t]
        map == [i \in DOMAIN map0 \cup {ip} |->
                   IF i = ip THEN updated ELSE map0[i]]
    IN  IF thresholdReached(updated.count)
        THEN [attempts |-> map,
              db |-> blockIP(blocks, ip, IP_BLOCK_DURATION_MINUTES, DefaultReason, t).db,
              result |-> TRUE]
        ELSE [attempts |-> map, db |-> blocks, result |-> FALSE]

----------------------------------------------------------------------------
\* POST /api/iscrizione (server.js)

Emails == {"a", "b", "c", "d"}

\* checkRateLimit(`email:${email}`, 1, 3600000)
EmailKey(email) == "email:" \o email

\* checkRateLimit(`ip:${ip}`, 3, 3600000)
IpKey(ip) == "ip:" \o ip

EmailMax == 1

IpMax == 3

\* DatabaseManager.createIscrizione: email_capitano is UNIQUE
createIscrizione(rows, email) ==
    IF email \in rows
    THEN [db |-> rows, success |-> FALSE]
    ELSE [db |-> rows \cup {email}, success |-> TRUE]

\* the email-scoped check of the handler
\* the email check that allows two requests per hour
emailGateAllowsRetry(rl, key, t) == checkRateLimit(rl, key, EmailMax + 1, HOUR, t)

emailGate(rl, key, t) == checkRateLimit(rl, key, EmailMax, HOUR, t)

\* the IP-scoped check of the handler
ipGate(rl, key, t) == checkRateLimit(rl, key, IpMax, HOUR, t)

iscrizioneOutcomeIgnoresIpLimit(accepted, emailAllowed, ipAllowed) ==
    IF ~accepted THEN "invalid"
    ELSE IF ~emailAllowed THEN "emailLimited"
    ELSE "create"

\* the early returns of the handler, in order: honeypot and validation (400),
\* email limit (429), IP limit (429); else createIscrizione is called
iscrizioneOutcome(accepted, emailAllowed, ipAllowed) ==
    IF ~accepted THEN "invalid"
    ELSE IF ~emailAllowed THEN "emailLimited"
    ELSE IF ~ipAllowed THEN "ipLimited"
    ELSE "create"

----------------------------------------------------------------------------
\* CLIENT EVENT QUEUE (analytics.js)

\* Events are numbered 1, 2, ... in the order queueEvent creates them.
Events == 1..(IF MaxEvents > MaxBatched THEN MaxEvents ELSE MaxBatched)

batchFullOnlyAbove(length) == length > batchSize

\* if (this.eventQueue.length >= this.config.batchSize)
batchFull(length) == length >= batchSize

flushQueueOnlyFullBatches(queue, online) ==
    IF Len(queue) < batchSize \/ ~online
    THEN [eventQueue |-> queue, events |-> <<>>]
    ELSE [eventQueue |-> <<>>, events |-> queue]

\* flushQueue up to its first await: the early return, or the snapshot taken and
\* the buffer emptied (events: what the call goes on to send)
\* the flush that copies the buffer without emptying it
flushQueueKeepsBuffer(queue, online) ==
    IF Len(queue) = 0 \/ ~online
    THEN [eventQueue |-> queue, events |-> <<>>]
    ELSE [eventQueue |-> queue, events |-> queue]

flushQueue(queue, online) ==
    IF Len(queue) = 0 \/ ~online
    THEN [eventQueue |-> queue, events |-> <<>>]
    ELSE [eventQueue |-> <<>>, events |-> queue]

\* the retry that sends nothing and leaves the retry queue as it is
retryFailedEventsSendsNothing(queue) == [retryQueue |-> queue, events |-> <<>>]

\* the retry that copies the retry queue without emptying it
retryFailedEventsKeepsQueue(queue) == [retryQueue |-> queue, events |-> queue]

\* retryFailedEvents up to its first await
retryFailedEvents(queue) == [retryQueue |-> <<>>, events |-> queue]

canRetryOnceMore(n) == n <= retryAttempts

\* if (event.attempts < this.config.retryAttempts)
canRetry(n) == n < retryAttempts

\* for (const event of events) await this.sendEvent(event): a call with events to
\* send starts the fetch of the first one at once
Started(calls, events) == IF events = <<>> THEN calls ELSE calls \cup {events}

Fetched(count, events) ==
    IF events = <<>> THEN count ELSE [count EXCEPT ![Head(events)] = @ + 1]

NoFlushes == [count |-> 0, snapshot |-> <<>>]

Flushed(log, events) ==
    IF events = <<>> THEN log ELSE [count |-> log.count + 1, snapshot |-> events]

\* rows an analytics table holds at most, and pages_viewed of a session
MaxRows == 2

\* a field the request body does not carry (undefined in the handler)
Undefined == "undefined"

\* the SQL NULL
NULL == "NULL"

\* x || null
OrNull(x) == IF x = Undefined THEN NULL ELSE x

\* a value a NOT NULL column accepts: the binding of undefined or null fails
NotNull(x) == x \notin {Undefined, NULL}

\* sanitizeInput: tags are removed, the rest trimmed and escaped; of the
\* values of the model only "<b>" has anything to remove
sanitizeInput(input) == IF input = "<b>" THEN "" ELSE input

\* generateAnonymousId(ip, userAgent): a hash of ip, the user agent and the day
generateAnonymousId(ip) == "anon-" \o ip

\* INSERT INTO a table whose NOT NULL columns are required: the statement
\* throws when one of them has no value, else the row is appended
insertRow(table, row, required) ==
    IF \A column \in required : NotNull(row[column])
    THEN [db |-> Append(table, row), error |-> FALSE]
    ELSE [db |-> table, error |-> TRUE]

\* trackPageview(data): the error of the insert is caught, the result is false
trackPageview(table, data) ==
    LET r == insertRow(table,
                       [session_id |-> OrNull(data.sessionId),
                        page |-> IF data.page = Undefined THEN "/" ELSE data.page],
                       {"session_id", "page"})
    IN  [db |-> r.db, result |-> ~r.error]

trackEvent(table, data) ==
    LET r == insertRow(table,
                       [session_id |-> OrNull(data.sessionId),
                        category |-> data.category,
                        action |-> data.action],
                       {"category", "action"})
    IN  [db |-> r.db, result |-> ~r.error]

trackPuzzle(table, data) ==
    LET r == insertRow(table,
                       [session_id |-> OrNull(data.sessionId), action |-> data.action],
                       {"action"})
    IN  [db |-> r.db, result |-> ~r.error]

trackForm(table, data) ==
    LET r == insertRow(table,
                       [session_id |-> OrNull(data.sessionId), action |-> data.action],
                       {"action"})
    IN  [db |-> r.db, result |-> ~r.error]

\* trackSession(anonymousId): upsertSession, pages_viewed 1 or one more
trackSession(sessions, anonymousId) ==
    IF anonymousId \in DOMAIN sessions
    THEN [sessions EXCEPT ![anonymousId] = @ + 1]
    ELSE sessions @@ (anonymousId :> 1)

NoIngest ==
    [endpoint |-> "none", malformed |-> FALSE, status |-> 0, success |-> FALSE,
     persisted |-> FALSE, changed |-> FALSE]

\* retryDelay, in clock ticks
retryDelay == 2

\* the times a retry timer can be due at
DueTimes == 0..(MaxTime + retryDelay * (retryAttempts + 1))

NoTimers == [due \in DueTimes |-> 0]

\* failedAt of an event no attempt of which has failed
NoFailure == -1

\* this.sessionStart = Date.now() in the constructor, which runs at time 0
sessionStart == 0

\* getTimeOnPage() at time t
getTimeOnPage(t) == t - sessionStart

\* sendBeacon(endpoint, data): navigator.sendBeacon is called if it exists
sendBeacon(log, has, beacon) == IF has THEN Append(log, beacon) ELSE log

\* sendFinalData at time t: the Session End beacon (value: the time on page),
\* then the Engagement Score beacon (its value is not recorded)
sendFinalData(log, has, t) ==
    sendBeacon(sendBeacon(log, has, [category |-> "Session", action |-> "End",
                                     value |-> getTimeOnPage(t)]),
               has, [category |-> "Engagement", action |-> "Score", value |-> 0])

\* how many beacons of log carry category and action
Beacons(log, category, action) ==
    Cardinality({i \in 1..Len(log) :
                    log[i].category = category /\ log[i].action = action})

InQueue(queue, e) == \E i \in 1..Len(queue) : queue[i] = e

InCall(calls, e) == \E c \in calls : InQueue(c, e)

----------------------------------------------------------------------------
\* The state before any call, request or event

NoCall ==
    [key |-> "none", branch |-> "none", at |-> 0, prevCount |-> 0, prevStart |-> 0,
     result |-> Allowed(0)]

NoRun == [n |-> 0, t0 |-> 0]

NoneAllowed == [t \in 0..MaxTime |-> 0]

NoUncleaned == [branch |-> "none", result |-> Allowed(0)]

NoDbCall ==
    [op |-> "none", ip |-> "none", at |-> 0, hadRecord |-> FALSE, prevUntil |-> NoBlock,
     result |-> FALSE, afterBlock |-> FALSE, afterFalse |-> FALSE]

NoRow == [blocked_at |-> 0, blocked_until |-> NoBlock, reason |-> "", attempts |-> 0]

NoRequest ==
    [ip |-> "none", route |-> "none", keyValid |-> FALSE, target |-> "none", at |-> 0,
     stage |-> "none", status |-> 0, message |-> "", gatedUntil |-> NoBlock,
     countBefore |-> 0, hadRecord |-> FALSE, prevUntil |-> NoBlock,
     arrival |-> NoRow, ran |-> <<>>]

NoRegistration ==
    [email |-> "none", status |-> 0, emailChecked |-> FALSE,
     emailAllowed |-> FALSE, ipChecked |-> FALSE, ipAllowed |-> FALSE,
     createCalled |-> FALSE, rowsBefore |-> {}]

RLIdle ==
    /\ rate_limits = <<>>
    /\ rlCfg = [k \in RLKeys |-> [maxRequests |-> 1, windowMs |-> HOUR]]
    /\ rlLast = NoCall
    /\ rlRun = [k \in RLKeys |-> NoRun]
    /\ uncleaned = <<>>
    /\ uncleanedLast = NoUncleaned
    /\ allowedAt = NoneAllowed

BlockIdle ==
    /\ ip_blocks = <<>>
    /\ ipAttempts = <<>>
    /\ dbLast = NoDbCall
    /\ resp = NoRequest
    /\ gateUntil = [i \in IPs |-> NoBlock]

RegIdle ==
    /\ iscrizioni = {}
    /\ regLast = NoRegistration

\* a page just loaded, visible, in a browser with navigator.sendBeacon
PageIdle ==
    /\ visibilityState = "visible"
    /\ pageUnloaded = FALSE
    /\ hasSendBeacon = TRUE
    /\ beaconLog = <<>>
    /\ visibilityChanges = 0

\* empty analytics tables, no analytics request made
IngestIdle ==
    /\ analytics_pageviews = <<>>
    /\ analytics_events = <<>>
    /\ analytics_puzzle = <<>>
    /\ analytics_form = <<>>
    /\ analytics_sessions = <<>>
    /\ ingestLast = NoIngest

\* the fields the constructor of FoggianoAnalytics sets
ClientFields ==
    /\ eventQueue = <<>>
    /\ retryQueue = <<>>
    /\ eventAttempts = [e \in Events |-> 0]
    /\ inFlight = {}
    /\ retryTimers = 0
    /\ nextId = 0
    /\ sends = [e \in Events |-> 0]
    /\ delivered = [e \in Events |-> 0]
    /\ dropped = {}
    /\ flushes = NoFlushes
    /\ offlineQueued = {}
    /\ reconnected = {}
    /\ timerDue = NoTimers
    /\ failedAt = [e \in Events |-> NoFailure]
    /\ PageIdle

ClientIdle ==
    /\ ClientFields
    /\ isOnline = TRUE
    /\ sizeOnly = TRUE
    /\ timed = FALSE

\* the clock advances
Tick ==
    /\ now < MaxTime
    /\ now' = now + 1
    /\ UNCHANGED <<rlVars, blockVars, regVars, ingestVars, clientVars>>

----------------------------------------------------------------------------
\* The rate limit gate and its callers (SpecRateLimit)

\* A caller invokes checkRateLimit(k, max, windowMs) with its call site's parameters.
\* rlRun counts the calls made within the window opened by the creation of the row.
CheckRateLimit(k) ==
    LET max == rlCfg[k].maxRequests
        w   == rlCfg[k].windowMs
        r   == checkRateLimit(rate_limits, k, max, w, now)
        u   == checkRateLimit(uncleaned, k, max, w, now)
        had == k \in DOMAIN rate_limits
    IN  /\ rate_limits' = r.db
        /\ rlLast' = [key |-> k, branch |-> r.branch, at |-> now,
                      prevCount |-> IF had THEN rate_limits[k].count ELSE 0,
                      prevStart |-> IF had THEN rate_limits[k].window_start ELSE 0,
                      result |-> r.result]
        /\ rlRun' = [rlRun EXCEPT ![k] =
                        IF ~had THEN [n |-> 1, t0 |-> now]
                        ELSE IF @.n > 0 /\ now - @.t0 < w
                             THEN [@ EXCEPT !.n = IF @ > max + 1 THEN @ ELSE @ + 1]
                             ELSE NoRun]
        /\ uncleaned' = u.db
        /\ uncleanedLast' = [branch |-> u.branch, result |-> u.result]
        /\ UNCHANGED <<now, rlCfg, blockVars, regVars, ingestVars, clientVars>>

\* cron '0 * * * *': db.cleanupRateLimits()
CleanupRateLimits ==
    /\ rate_limits' = deleteOldRateLimits(rate_limits, now)
    /\ rlRun' = [k \in RLKeys |-> IF k \in DOMAIN rate_limits' THEN rlRun[k] ELSE NoRun]
    /\ UNCHANGED <<now, rlCfg, rlLast, uncleaned, uncleanedLast, allowedAt, blockVars,
                   regVars, ingestVars, clientVars>>

RLInit ==
    /\ now = 0
    /\ rate_limits = <<>>
    /\ rlCfg \in CallSites
    /\ rlLast = NoCall
    /\ rlRun = [k \in RLKeys |-> NoRun]
    /\ uncleaned = <<>>
    /\ uncleanedLast = NoUncleaned
    /\ allowedAt = NoneAllowed
    /\ BlockIdle
    /\ RegIdle
    /\ IngestIdle
    /\ ClientIdle

RLNext ==
    \/ \E k \in RLKeys : CheckRateLimit(k) /\ UNCHANGED allowedAt
    \/ CleanupRateLimits
    \/ Tick

SpecRateLimit == RLInit /\ [][RLNext]_vars

\* One key, checked with fixed parameters, and no cleanup: the calls that
\* returned allowed are counted at the time they were made (SpecBurst).
BurstCheck ==
    /\ CheckRateLimit("k")
    /\ allowedAt' = IF rlLast'.result.allowed
                     THEN [allowedAt EXCEPT ![now] = @ + 1]
                     ELSE allowedAt

BurstNext ==
    \/ BurstCheck
    \/ Tick

SpecBurst == RLInit /\ [][BurstNext]_vars

----------------------------------------------------------------------------
\* The registration endpoint (SpecIscrizione)

\* The handler of POST /api/iscrizione for a request that passed ipBlockMiddleware,
\* formLimiter and csrfProtection.  The validation chain has normalised
\* emailCapitano in place, so email is the normalised address.  accepted: the
\* honeypot is empty and validationResult has no errors.
PostIscrizione(email, ip, accepted) ==
    LET asked == [NoRegistration EXCEPT !.email = email, !.rowsBefore = iscrizioni]
        emailRateLimit == emailGate(rate_limits, EmailKey(email), now)
        ipRateLimit    == ipGate(emailRateLimit.db, IpKey(ip), now)
        result         == createIscrizione(iscrizioni, email)
        outcome        == iscrizioneOutcome(accepted, emailRateLimit.result.allowed,
                                            ipRateLimit.result.allowed)
        emailSeen      == [asked EXCEPT !.emailChecked = TRUE,
                                        !.emailAllowed = emailRateLimit.result.allowed]
        ipSeen         == [emailSeen EXCEPT !.ipChecked = TRUE,
                                            !.ipAllowed = ipRateLimit.result.allowed]
    IN  /\ CASE outcome = "invalid" ->
                  /\ regLast' = [asked EXCEPT !.status = 400]
                  /\ UNCHANGED <<rate_limits, iscrizioni>>
             [] outcome = "emailLimited" ->
                  /\ regLast' = [emailSeen EXCEPT !.status = 429]
                  /\ rate_limits' = emailRateLimit.db
                  /\ UNCHANGED iscrizioni
             [] outcome = "ipLimited" ->
                  /\ regLast' = [ipSeen EXCEPT !.status = 429]
                  /\ rate_limits' = ipRateLimit.db
                  /\ UNCHANGED iscrizioni
             [] outcome = "create" ->
                  /\ regLast' = [ipSeen EXCEPT !.status = IF result.success THEN 200
                                                          ELSE 400,
                                               !.createCalled = TRUE]
                  /\ rate_limits' = ipRateLimit.db
                  /\ iscrizioni' = result.db
        /\ UNCHANGED <<now, rlCfg, rlLast, rlRun, uncleaned, uncleanedLast, allowedAt,
                       blockVars, ingestVars, clientVars>>

RegInit ==
    /\ now = 0
    /\ RLIdle
    /\ BlockIdle
    /\ RegIdle
    /\ IngestIdle
    /\ ClientIdle

RegNext ==
    \/ \E email \in Emails, ip \in {"ip1"}, accepted \in BOOLEAN :
          PostIscrizione(email, ip, accepted)
    \/ CleanupRateLimits
    \/ Tick

SpecIscrizione == RegInit /\ [][RegNext]_vars

----------------------------------------------------------------------------
\* Direct calls of the DatabaseManager block API (SpecBlockDb)

\* what dbLast records of a call on ip: the row it found, what it returned, and
\* whether it follows a blockIP(ip) made at the same instant (afterBlock) or an
\* isIPBlocked(ip) that returned blocked = false (afterFalse)
DbCall(op, ip, result) ==
    [op |-> op, ip |-> ip, at |-> now, hadRecord |-> ip \in DOMAIN ip_blocks,
     prevUntil |-> IF ip \in DOMAIN ip_blocks THEN ip_blocks[ip].blocked_until
                   ELSE NoBlock,
     result |-> result,
     afterBlock |-> (dbLast.op = "blockIP" /\ dbLast.ip = ip /\ dbLast.at = now),
     afterFalse |-> (dbLast.op = "isIPBlocked" /\ dbLast.ip = ip /\ ~dbLast.result)]

DbBlockIP(ip, minutes) ==
    LET r == blockIP(ip_blocks, ip, minutes, DefaultReason, now)
    IN  /\ ip \in DOMAIN ip_blocks => ip_blocks[ip].attempts < MaxBlockAttempts
        /\ ip_blocks' = r.db
        /\ dbLast' = DbCall("blockIP", ip, r.result)
        /\ UNCHANGED <<now, rlVars, ipAttempts, resp, gateUntil, regVars, ingestVars, clientVars>>

DbIsIPBlocked(ip) ==
    LET r == isIPBlocked(ip_blocks, ip, now)
    IN  /\ ip_blocks' = r.db
        /\ dbLast' = DbCall("isIPBlocked", ip, r.result.blocked)
        /\ UNCHANGED <<now, rlVars, ipAttempts, resp, gateUntil, regVars, ingestVars, clientVars>>

DbUnblockIP(ip) ==
    LET r == unblockIP(ip_blocks, ip)
    IN  /\ ip_blocks' = r.db
        /\ dbLast' = DbCall("unblockIP", ip, r.result)
        /\ UNCHANGED <<now, rlVars, ipAttempts, resp, gateUntil, regVars, ingestVars, clientVars>>

DbCleanupExpiredIPBlocks ==
    /\ ip_blocks' = cleanupExpiredIPBlocks(ip_blocks, now).db
    /\ UNCHANGED <<now, rlVars, ipAttempts, dbLast, resp, gateUntil, regVars, ingestVars, clientVars>>

DbInit ==
    /\ now = 0
    /\ RLIdle
    /\ BlockIdle
    /\ RegIdle
    /\ IngestIdle
    /\ ClientIdle

DbNext ==
    \/ \E ip \in IPs, minutes \in 1..MaxMinutes : DbBlockIP(ip, minutes)
    \/ \E ip \in IPs : DbIsIPBlocked(ip)
    \/ \E ip \in IPs : DbUnblockIP(ip)
    \/ DbCleanupExpiredIPBlocks
    \/ Tick

SpecBlockDb == DbInit /\ [][DbNext]_vars

----------------------------------------------------------------------------
\* The Express chain of one request (SpecServer)

\* what resp records of a request: who asked what, the counter it found, the row
\* of ip in the table when the request arrived (arrival), and the row of target
\* in the table as ipBlockMiddleware left it (blocks)
Asked(ip, route, keyValid, target, blocks) ==
    [ip |-> ip, route |-> route, keyValid |-> keyValid, target |-> target, at |-> now,
     gatedUntil |-> gateUntil[ip],
     countBefore |-> IF ip \in DOMAIN ipAttempts THEN ipAttempts[ip].count ELSE 0,
     hadRecord |-> target \in DOMAIN blocks,
     prevUntil |-> IF target \in DOMAIN blocks THEN blocks[target].blocked_until
                   ELSE NoBlock,
     arrival |-> IF ip \in DOMAIN ip_blocks THEN ip_blocks[ip] ELSE NoRow]

\* the answer of stage, and the stages that ran for the request (ran)
Answer(asked, stage, status, message) ==
    asked @@ [stage |-> stage, status |-> status, message |-> message,
              ran |-> RanUpTo(Chain(asked.route), stage)]

\* One inbound request from ip: ipBlockMiddleware, then for the admin routes
\* adminAuthMiddleware, then the route handler.  keyValid is validateAdminKey of
\* the key it carries; target is body.ip of an unblock request ("none": missing,
\* as on every other route).
\* (generalLimiter, between the two middlewares, is taken to let the request pass.)
Request(ip, route, keyValid, target) ==
    LET gate  == isIPBlocked(ip_blocks, ip, now)
        asked == Asked(ip, route, keyValid, target, gate.db)
        inc   == incrementSuspiciousAttempts(ipAttempts, gate.db, ip, now)
        unb   == unblockIP(gate.db, target)
    IN  /\ IF gate.result.blocked
           THEN /\ resp' = Answer(asked, "blockGate", 429, BlockedMessage)
                /\ ip_blocks' = gate.db
                /\ UNCHANGED <<ipAttempts, gateUntil>>
           ELSE IF route = "public"
           THEN /\ resp' = Answer(asked, "handler", 200, "")
                /\ ip_blocks' = gate.db
                /\ UNCHANGED <<ipAttempts, gateUntil>>
           ELSE IF ~keyValid
           THEN /\ resp' = IF inc.result
                           THEN Answer(asked, "adminAuth", 429, TooManyMessage)
                           ELSE Answer(asked, "adminAuth", 401, UnauthorizedMessage)
                /\ ip_blocks' = inc.db
                /\ ipAttempts' = inc.attempts
                /\ gateUntil' = IF asked.countBefore + 1 >= MAX_SUSPICIOUS_ATTEMPTS
                                THEN [gateUntil EXCEPT ![ip] = now + IP_BLOCK_DURATION_MINUTES]
                                ELSE gateUntil
           ELSE IF route = "admin"
           THEN /\ resp' = Answer(asked, "handler", 200, "")
                /\ ip_blocks' = gate.db
                /\ UNCHANGED <<ipAttempts, gateUntil>>
           ELSE IF target = "none"
           THEN /\ resp' = Answer(asked, "handler", 400, "IP richiesto")
                /\ ip_blocks' = gate.db
                /\ UNCHANGED <<ipAttempts, gateUntil>>
           ELSE /\ resp' = Answer(asked, "handler", 200,
                                  IF unb.result THEN "IP " \o target \o " sbloccato"
                                  ELSE "IP non era bloccato")
                /\ ip_blocks' = unb.db
                /\ ipAttempts' = [i \in DOMAIN ipAttempts \ {target} |-> ipAttempts[i]]
                /\ gateUntil' = [gateUntil EXCEPT ![target] = NoBlock]
        /\ UNCHANGED <<now, rlVars, dbLast, regVars, ingestVars, clientVars>>

\* the sweep that forgets every counter, stale or not
CronSecurityCleanupForgetsAll ==
    /\ ipAttempts' = <<>>
    /\ ip_blocks' = cleanupExpiredIPBlocks(ip_blocks, now).db
    /\ UNCHANGED <<now, rlVars, dbLast, resp, gateUntil, regVars, ingestVars, clientVars>>

\* cron '*/15 * * * *': sweep of ipAttempts, then db.cleanupExpiredIPBlocks()
CronSecurityCleanup ==
    /\ ipAttempts' = [i \in {j \in DOMAIN ipAttempts :
                                ~(now - ipAttempts[j].lastAttempt > HOUR)} |->
                        ipAttempts[i]]
    /\ ip_blocks' = cleanupExpiredIPBlocks(ip_blocks, now).db
    /\ UNCHANGED <<now, rlVars, dbLast, resp, gateUntil, regVars, ingestVars, clientVars>>

ServerInit ==
    /\ now = 0
    /\ RLIdle
    /\ BlockIdle
    /\ RegIdle
    /\ IngestIdle
    /\ ClientIdle

ServerNext ==
    \/ \E ip \in IPs : Request(ip, "public", FALSE, "none")
    \/ \E ip \in IPs, keyValid \in BOOLEAN : Request(ip, "admin", keyValid, "none")
    \/ \E ip \in IPs, keyValid \in BOOLEAN, target \in IPs \cup {"none"} :
          Request(ip, "unblock", keyValid, target)
    \/ CronSecurityCleanup
    \/ Tick

SpecServer == ServerInit /\ [][ServerNext]_vars

----------------------------------------------------------------------------
\* The chain in front of a table that already holds blocks (SpecGate)

\* ip_blocks is persistent: tables a restarted server can find, their rows
\* written at time 0 by blockIP(ip, minutes, reason) calls
PersistedBlocks ==
    UNION {[S -> [blocked_at : {0}, blocked_until : 1..MaxMinutes, reason : Reasons,
                  attempts : 1..MaxBlockAttempts]] : S \in SUBSET IPs}

GateInit ==
    /\ now = 0
    /\ RLIdle
    /\ ip_blocks \in PersistedBlocks
    /\ ipAttempts = <<>>
    /\ dbLast = NoDbCall
    /\ resp = NoRequest
    /\ gateUntil = [i \in IPs |-> NoBlock]
    /\ RegIdle
    /\ IngestIdle
    /\ ClientIdle

GateNext ==
    \/ \E ip \in IPs : Request(ip, "public", FALSE, "none")
    \/ \E ip \in IPs, keyValid \in BOOLEAN : Request(ip, "admin", keyValid, "none")
    \/ Tick

SpecGate == GateInit /\ [][GateNext]_vars

----------------------------------------------------------------------------
\* The client (SpecClient)

\* queueEvent(endpoint, data)
QueueEvent(limit) ==
    LET e == nextId + 1
        pushed == Append(eventQueue, e)
        f == IF batchFull(Len(pushed)) THEN flushQueue(pushed, isOnline)
             ELSE [eventQueue |-> pushed, events |-> <<>>]
    IN  /\ nextId < limit
        /\ nextId' = e
        /\ eventQueue' = f.eventQueue
        /\ inFlight' = Started(inFlight, f.events)
        /\ sends' = Fetched(sends, f.events)
        /\ flushes' = IF sizeOnly THEN Flushed(flushes, f.events) ELSE flushes
        /\ offlineQueued' = IF isOnline THEN offlineQueued ELSE offlineQueued \cup {e}
        /\ UNCHANGED <<retryQueue, isOnline, eventAttempts, retryTimers, delivered,
                       dropped, sizeOnly, reconnected>>
        /\ UNCHANGED <<now, rlVars, blockVars, regVars, ingestVars, pageVars, retryClock>>

\* the setInterval callback of startBatchProcessor, when the buffer is not empty
BatchTimer ==
    LET f == flushQueue(eventQueue, isOnline)
    IN  /\ Len(eventQueue) > 0
        /\ eventQueue' = f.eventQueue
        /\ inFlight' = Started(inFlight, f.events)
        /\ sends' = Fetched(sends, f.events)
        /\ sizeOnly' = (sizeOnly /\ f.events = <<>>)
        /\ flushes' = IF sizeOnly' THEN flushes ELSE NoFlushes
        /\ UNCHANGED <<retryQueue, isOnline, eventAttempts, retryTimers, nextId,
                       delivered, dropped, offlineQueued, reconnected>>
        /\ UNCHANGED <<now, rlVars, blockVars, regVars, ingestVars, pageVars, retryClock>>

\* window 'online': isOnline = true; flushQueue(); retryFailedEvents()
Online ==
    LET f == flushQueue(eventQueue, TRUE)
        r == retryFailedEvents(retryQueue)
    IN  /\ ~isOnline
        /\ isOnline' = TRUE
        /\ eventQueue' = f.eventQueue
        /\ retryQueue' = r.retryQueue
        /\ inFlight' = Started(Started(inFlight, f.events), r.events)
        /\ sends' = Fetched(Fetched(sends, f.events), r.events)
        /\ reconnected' = reconnected \cup offlineQueued
        /\ sizeOnly' = FALSE
        /\ UNCHANGED <<eventAttempts, retryTimers, nextId, delivered, dropped,
                       flushes, offlineQueued>>
        /\ UNCHANGED <<now, rlVars, blockVars, regVars, ingestVars, pageVars, retryClock>>

\* window 'offline': isOnline = false
Offline ==
    /\ isOnline
    /\ isOnline' = FALSE
    /\ sizeOnly' = FALSE
    /\ flushes' = NoFlushes
    /\ UNCHANGED <<eventQueue, retryQueue, eventAttempts, inFlight, retryTimers, nextId,
                   sends, delivered, dropped, offlineQueued, reconnected>>
    /\ UNCHANGED <<now, rlVars, blockVars, regVars, ingestVars, pageVars, retryClock>>

\* a setTimeout(() => this.retryFailedEvents(), retryDelay * attempts) fires
RetryTimer ==
    LET r == retryFailedEvents(retryQueue)
    IN  /\ retryTimers > 0
        /\ retryTimers' = retryTimers - 1
        /\ IF timed
           THEN \E due \in DueTimes :
                    /\ timerDue[due] > 0
                    /\ due <= now
                    /\ timerDue' = [timerDue EXCEPT ![due] = @ - 1]
           ELSE UNCHANGED timerDue
        /\ UNCHANGED <<timed, failedAt>>
        /\ retryQueue' = r.retryQueue
        /\ inFlight' = Started(inFlight, r.events)
        /\ sends' = Fetched(sends, r.events)
        /\ UNCHANGED <<eventQueue, isOnline, eventAttempts, nextId, delivered, dropped,
                       flushes, sizeOnly, offlineQueued, reconnected>>
        /\ UNCHANGED <<now, rlVars, blockVars, regVars, ingestVars, pageVars>>

\* The pending fetch of a call settles (ok: the response is ok): the rest of
\* sendEvent runs, and the loop of the call goes on to the fetch of its next event.
SendEvent(call, ok) ==
    LET event == Head(call)
        rest  == Tail(call)
        retry == ~ok /\ canRetry(eventAttempts[event])
        n     == eventAttempts[event] + 1
    IN  /\ call \in inFlight
        /\ delivered' = IF ok THEN [delivered EXCEPT ![event] = @ + 1] ELSE delivered
        /\ eventAttempts' = IF retry THEN [eventAttempts EXCEPT ![event] = n]
                            ELSE eventAttempts
        /\ retryQueue' = IF retry THEN Append(retryQueue, event) ELSE retryQueue
        /\ retryTimers' = IF retry THEN retryTimers + 1 ELSE retryTimers
        /\ timerDue' = IF retry /\ timed
                        THEN [timerDue EXCEPT ![now + retryDelay * n] = @ + 1]
                        ELSE timerDue
        /\ failedAt' = IF retry THEN [failedAt EXCEPT ![event] = now] ELSE failedAt
        /\ UNCHANGED timed
        /\ dropped' = IF ~ok /\ ~retry THEN dropped \cup {event} ELSE dropped
        /\ inFlight' = Started(inFlight \ {call}, rest)
        /\ sends' = Fetched(sends, rest)
        /\ UNCHANGED <<eventQueue, isOnline, nextId, flushes, sizeOnly, offlineQueued,
                       reconnected>>
        /\ UNCHANGED <<now, rlVars, blockVars, regVars, ingestVars, pageVars>>

\* the fields the constructor sets; isOnline = navigator.onLine
ClientInit ==
    /\ ClientFields
    /\ isOnline \in BOOLEAN
    /\ sizeOnly = isOnline
    /\ timed = FALSE

ClientSpecInit ==
    /\ now = 0
    /\ RLIdle
    /\ BlockIdle
    /\ RegIdle
    /\ IngestIdle
    /\ ClientInit

ClientNext ==
    \/ QueueEvent(MaxEvents)
    \/ BatchTimer
    \/ Online
    \/ Offline
    \/ RetryTimer
    \/ \E call \in inFlight, ok \in BOOLEAN : SendEvent(call, ok)

SpecClient == ClientSpecInit /\ [][ClientNext]_vars

OnlineInit ==
    /\ now = 0
    /\ RLIdle
    /\ BlockIdle
    /\ RegIdle
    /\ IngestIdle
    /\ ClientIdle

OnlineNext ==
    \/ QueueEvent(MaxBatched)
    \/ BatchTimer
    \/ RetryTimer
    \/ \E call \in inFlight, ok \in BOOLEAN : SendEvent(call, ok)

SpecOnline == OnlineInit /\ [][OnlineNext]_vars

\* The online client on a live page: the setInterval callback of
\* startBatchProcessor runs whenever the buffer holds an event, a scheduled
\* setTimeout callback runs, and a pending fetch settles one way or the other.
OnlineFairness ==
    /\ WF_vars(BatchTimer)
    /\ WF_vars(RetryTimer)
    /\ WF_vars(\E call \in inFlight, ok \in BOOLEAN : SendEvent(call, ok))

SpecOnlineLive == OnlineInit /\ [][OnlineNext]_vars /\ OnlineFairness

\* An online client whose retry timers fire at their due time or later
RetryInit ==
    /\ now = 0
    /\ RLIdle
    /\ BlockIdle
    /\ RegIdle
    /\ IngestIdle
    /\ ClientFields
    /\ isOnline = TRUE
    /\ sizeOnly = TRUE
    /\ timed = TRUE

RetryNext ==
    \/ QueueEvent(MaxEvents)
    \/ BatchTimer
    \/ RetryTimer
    \/ \E call \in inFlight, ok \in BOOLEAN : SendEvent(call, ok)
    \/ Tick

SpecRetry == RetryInit /\ [][RetryNext]_vars

----------------------------------------------------------------------------
\* The page lifecycle listeners of setupUnloadTracking (SpecUnload)

\* document 'visibilitychange': the tab is hidden or shown again; when it is
\* hidden the listener calls sendFinalData
VisibilityChange ==
    LET state == IF visibilityState = "visible" THEN "hidden" ELSE "visible"
    IN  /\ ~pageUnloaded
        /\ visibilityChanges < MaxVisibilityChanges
        /\ visibilityChanges' = visibilityChanges + 1
        /\ visibilityState' = state
        /\ beaconLog' = IF state = "hidden"
                         THEN sendFinalData(beaconLog, hasSendBeacon, now)
                         ELSE beaconLog
        /\ UNCHANGED <<pageUnloaded, hasSendBeacon>>
        /\ UNCHANGED <<now, rlVars, blockVars, regVars, ingestVars, eventQueue, retryQueue, isOnline,
                       eventAttempts, inFlight, retryTimers, nextId, sends, delivered,
                       dropped, flushes, sizeOnly, offlineQueued, reconnected, retryClock>>

\* window 'beforeunload': sendFinalData, and the page goes away
BeforeUnload ==
    /\ ~pageUnloaded
    /\ pageUnloaded' = TRUE
    /\ beaconLog' = sendFinalData(beaconLog, hasSendBeacon, now)
    /\ UNCHANGED <<visibilityState, hasSendBeacon, visibilityChanges>>
    /\ UNCHANGED <<now, rlVars, blockVars, regVars, ingestVars, eventQueue, retryQueue, isOnline,
                   eventAttempts, inFlight, retryTimers, nextId, sends, delivered,
                   dropped, flushes, sizeOnly, offlineQueued, reconnected, retryClock>>

UnloadInit ==
    /\ now = 0
    /\ RLIdle
    /\ BlockIdle
    /\ RegIdle
    /\ IngestIdle
    /\ ClientIdle

UnloadNext ==
    \/ VisibilityChange
    \/ BeforeUnload
    \/ Tick

SpecUnload == UnloadInit /\ [][UnloadNext]_vars

----------------------------------------------------------------------------
\* The analytics ingestion endpoints (SpecIngest); the block gate and
\* analyticsLimiter in front of them are taken to let the request pass.

\* the record of a request: malformed (a required field is missing), the
\* response, whether the endpoint's table got its row (persisted) and whether
\* any analytics table differs (changed)
Ingested(endpoint, malformed, status, success, persisted, changed) ==
    [endpoint |-> endpoint, malformed |-> malformed, status |-> status,
     success |-> success, persisted |-> persisted, changed |-> changed]

\* POST /api/analytics/pageview
PostPageview(ip, sessionId, page) ==
    LET anonymousId == generateAnonymousId(ip)
        t == trackPageview(analytics_pageviews,
                           [sessionId |-> sessionId,
                            page |-> IF page = Undefined THEN "/" ELSE page])
        s == trackSession(analytics_sessions, anonymousId)
    IN  /\ Len(analytics_pageviews) < MaxRows
        /\ anonymousId \in DOMAIN analytics_sessions =>
               analytics_sessions[anonymousId] < MaxRows
        /\ analytics_pageviews' = t.db
        /\ analytics_sessions' = s
        /\ ingestLast' = Ingested("pageview", sessionId = Undefined, 200, TRUE,
                                   t.result, TRUE)
        /\ UNCHANGED <<analytics_events, analytics_puzzle, analytics_form>>
        /\ UNCHANGED <<now, rlVars, blockVars, regVars, clientVars>>

\* POST /api/analytics/event
PostEvent(sessionId, category, action) ==
    LET t == trackEvent(analytics_events,
                        [sessionId |-> sessionId,
                         category |-> sanitizeInput(category),
                         action |-> sanitizeInput(action)])
    IN  /\ Len(analytics_events) < MaxRows
        /\ IF category = Undefined \/ action = Undefined
           THEN /\ ingestLast' = Ingested("event", TRUE, 400, FALSE, FALSE, FALSE)
                /\ UNCHANGED analytics_events
           ELSE /\ analytics_events' = t.db
                /\ ingestLast' = Ingested("event", FALSE, 200, TRUE, t.result,
                                           t.db # analytics_events)
        /\ UNCHANGED <<analytics_pageviews, analytics_puzzle, analytics_form,
                       analytics_sessions>>
        /\ UNCHANGED <<now, rlVars, blockVars, regVars, clientVars>>

\* POST /api/analytics/puzzle
PostPuzzle(sessionId, action) ==
    LET t == trackPuzzle(analytics_puzzle, [sessionId |-> sessionId, action |-> action])
    IN  /\ Len(analytics_puzzle) < MaxRows
        /\ analytics_puzzle' = t.db
        /\ ingestLast' = Ingested("puzzle", action = Undefined, 200, TRUE, t.result,
                                   t.db # analytics_puzzle)
        /\ UNCHANGED <<analytics_pageviews, analytics_events, analytics_form,
                       analytics_sessions>>
        /\ UNCHANGED <<now, rlVars, blockVars, regVars, clientVars>>

\* POST /api/analytics/form
PostForm(sessionId, action) ==
    LET t == trackForm(analytics_form, [sessionId |-> sessionId, action |-> action])
    IN  /\ Len(analytics_form) < MaxRows
        /\ analytics_form' = t.db
        /\ ingestLast' = Ingested("form", action = Undefined, 200, TRUE, t.result,
                                   t.db # analytics_form)
        /\ UNCHANGED <<analytics_pageviews, analytics_events, analytics_puzzle,
                       analytics_sessions>>
        /\ UNCHANGED <<now, rlVars, blockVars, regVars, clientVars>>

IngestInit ==
    /\ now = 0
    /\ RLIdle
    /\ BlockIdle
    /\ RegIdle
    /\ IngestIdle
    /\ ClientIdle

IngestNext ==
    \/ \E ip \in IPs, sessionId \in {Undefined, "s1"}, page \in {Undefined, "/home"} :
          PostPageview(ip, sessionId, page)
    \/ \E sessionId \in {Undefined, "s1"}, category \in {Undefined, "Session", "<b>"},
          action \in {Undefined, "End"} :
          PostEvent(sessionId, category, action)
    \/ \E action \in {Undefined, "start"} : PostPuzzle("s1", action)
    \/ \E action \in {Undefined, "submit"} : PostForm("s1", action)

SpecIngest == IngestInit /\ [][IngestNext]_vars

----------------------------------------------------------------------------
\* Claims on the rate limit gate (SpecRateLimit)

\* C1: starting from no record for a key, of max+1 consecutive
\* checkRateLimit(k, max, windowMs) calls made within one window (less than
\* windowMs after the first call) the first max are all allowed and the
\* (max+1)-th, like every further one, is denied with retryAfter > 0; the
\* key "email:a" is the max = 1 case of the registration's email check.
C1_MaxAllowedThenDenied ==
    \A k \in RLKeys :
        LET n   == rlRun[k].n
            max == rlCfg[k].maxRequests
        IN  (rlLast.key = k /\ n >= 1) =>
                /\ (n <= max => rlLast.result.allowed)
                /\ (n > max => /\ ~rlLast.result.allowed
                               /\ rlLast.result.retryAfter > 0)

C1_Witness ==
    /\ rlLast.key = "k"
    /\ rlCfg["k"].maxRequests = MaxRequests
    /\ rlRun["k"].n = MaxRequests + 1
    /\ ~rlLast.result.allowed
    /\ rlLast.result.retryAfter > 0

\* C2 (as claimed): a call on an existing record made at a time with
\* now - windowStart >= windowMs, equality included, resets the record to
\* count = 1 and windowStart = now and is allowed.
C2_ResetAtOrAfterWindow ==
    \A k \in RLKeys :
        (/\ rlLast.key = k
         /\ rlLast.prevCount > 0
         /\ rlLast.at - rlLast.prevStart >= rlCfg[k].windowMs) =>
            /\ rlLast.result.allowed
            /\ k \in DOMAIN rate_limits =>
                   /\ rate_limits[k].count = 1
                   /\ rate_limits[k].window_start = rlLast.at

----------------------------------------------------------------------------
\* Claims on the block table (SpecBlockDb)

\* C3: blockIP(ip, minutes) with minutes > 0 followed immediately by
\* isIPBlocked(ip) returns blocked = true; an isIPBlocked(ip) call made once
\* the time is past the record's blockedUntil returns blocked = false and
\* deletes the record; and an isIPBlocked(ip) call that follows one that
\* returned false returns false again (no record is left to fail on).
C3_BlockThenExpire ==
    dbLast.op = "isIPBlocked" =>
        /\ dbLast.afterBlock => dbLast.result
        /\ (dbLast.hadRecord /\ dbLast.at > dbLast.prevUntil) =>
              (~dbLast.result /\ dbLast.ip \notin DOMAIN ip_blocks)
        /\ dbLast.afterFalse =>
              (~dbLast.result /\ dbLast.ip \notin DOMAIN ip_blocks)

C3_Witness ==
    /\ dbLast.op = "isIPBlocked"
    /\ dbLast.hadRecord
    /\ dbLast.at > dbLast.prevUntil
    /\ ~dbLast.result
    /\ dbLast.ip \notin DOMAIN ip_blocks

----------------------------------------------------------------------------
\* Claims on the security chain (SpecServer)

\* C4 (as claimed): when the unblock handler runs for an ip that is not currently
\* blocked (no record, or a record whose blocked_until is already past), its
\* "was blocked" result is falsy: the handler answers "IP non era bloccato".
C4_FalsyUnlessActive ==
    (/\ resp.route = "unblock"
     /\ resp.stage = "handler"
     /\ resp.status = 200
     /\ ~(resp.hadRecord /\ ~(resp.prevUntil < resp.at))) =>
        resp.message = "IP non era bloccato"

C8_GenericUnauthorized ==
    resp.stage = "adminAuth" =>
        (resp.status = 401 /\ resp.message = UnauthorizedMessage)

----------------------------------------------------------------------------
\* Claims on the client queue without connectivity changes (SpecOnline)

\* C5 (as claimed): on a client that has been online from the start, once
\* N >= batchSize events have been enqueued exactly one flush has started, and
\* its snapshot is the first batchSize events.
C5_ExactlyOneFlush ==
    (sizeOnly /\ nextId >= batchSize) =>
        /\ flushes.count = 1
        /\ flushes.snapshot = [i \in 1..batchSize |-> i]

\* C5 (amended): on a client that has been online from the start, queueEvent
\* starts a flush at every batchSize-th enqueue without waiting for the batch
\* timer: after N enqueues N \div batchSize flushes have started (exactly one
\* only while batchSize <= N < 2 * batchSize), the k-th of them with the
\* snapshot of events (k-1)*batchSize + 1 .. k*batchSize in enqueue order, and
\* the buffer holds the N % batchSize events enqueued since.
C5_FlushEveryBatch ==
    sizeOnly =>
        /\ flushes.count = nextId \div batchSize
        /\ flushes.count > 0 =>
               flushes.snapshot =
                   [i \in 1..batchSize |-> (flushes.count - 1) * batchSize + i]
        /\ eventQueue = [i \in 1..(nextId % batchSize) |->
                             flushes.count * batchSize + i]

C5_Witness ==
    /\ sizeOnly
    /\ nextId = 2 * batchSize
    /\ flushes.count = 2
    /\ flushes.snapshot = [i \in 1..batchSize |-> batchSize + i]

----------------------------------------------------------------------------
\* Claims on the client queue (SpecClient)

\* C6: an event whose every delivery fails is fetched retryAttempts + 1 times
\* in total (one initial attempt and retryAttempts retries), its attempts
\* counter never exceeds retryAttempts, and once its last fetch has failed it
\* is dropped: it is in neither queue and in no running call.
C6_RetryThenDrop ==
    \A e \in Events :
        /\ eventAttempts[e] <= retryAttempts
        /\ delivered[e] = 0 => sends[e] <= retryAttempts + 1
        /\ e \in dropped =>
              /\ delivered[e] = 0
              /\ sends[e] = retryAttempts + 1
              /\ eventAttempts[e] = retryAttempts
              /\ ~InQueue(eventQueue, e)
              /\ ~InQueue(retryQueue, e)
              /\ ~InCall(inFlight, e)
        /\ (delivered[e] = 0 /\ sends[e] = retryAttempts + 1 /\ ~InCall(inFlight, e)) =>
              e \in dropped

C6_Witness ==
    \E e \in Events :
        /\ e \in dropped
        /\ sends[e] = retryAttempts + 1
        /\ eventAttempts[e] = retryAttempts
        /\ retryQueue = <<>>

\* C9: events enqueued while the client is offline stay buffered and unsent;
\* the 'online' event alone hands all of them, fewer or more than batchSize,
\* to a flush that sends them one after the other (none is left in the
\* buffer); no event is ever delivered twice, and an offline event none of
\* whose sends failed is fetched at most once, exactly once when its call has
\* finished.
C9_OfflineEventsSentOnce ==
    \A e \in Events :
        /\ delivered[e] <= 1
        /\ e \in offlineQueued \ reconnected =>
              (sends[e] = 0 /\ InQueue(eventQueue, e))
        /\ e \in reconnected =>
              /\ ~InQueue(eventQueue, e)
              /\ InCall(inFlight, e) \/ sends[e] >= 1
              /\ eventAttempts[e] = 0 =>
                    /\ sends[e] <= 1
                    /\ ~InCall(inFlight, e) => (sends[e] = 1 /\ delivered[e] = 1)

C9_Witness ==
    /\ offlineQueued = {1, 2, 3}
    /\ reconnected = {1, 2, 3}
    /\ nextId = 3
    /\ inFlight = {}
    /\ \A e \in {1, 2, 3} : sends[e] = 1 /\ delivered[e] = 1

----------------------------------------------------------------------------
\* Claims on the registration endpoint (SpecIscrizione)

\* C10: a POST /api/iscrizione calls createIscrizione only if, in the same
\* request, the email-scoped check and then the ip-scoped check both returned
\* allowed = true (the ip check is made only after the email check allowed);
\* a request either check denies is answered 429 and writes no registration
\* row.
C10_BothGatesBeforeCreate ==
    /\ regLast.createCalled =>
          /\ regLast.emailChecked /\ regLast.emailAllowed
          /\ regLast.ipChecked /\ regLast.ipAllowed
    /\ regLast.ipChecked => (regLast.emailChecked /\ regLast.emailAllowed)
    /\ iscrizioni # regLast.rowsBefore => regLast.createCalled
    /\ ((regLast.emailChecked /\ ~regLast.emailAllowed)
          \/ (regLast.ipChecked /\ ~regLast.ipAllowed)) =>
          /\ regLast.status = 429
          /\ ~regLast.createCalled
          /\ iscrizioni = regLast.rowsBefore

C10_Witness ==
    /\ regLast.emailChecked
    /\ regLast.emailAllowed
    /\ regLast.ipChecked
    /\ ~regLast.ipAllowed
    /\ regLast.status = 429
    /\ Cardinality(iscrizioni) = IpMax

----------------------------------------------------------------------------
\* Claims on the chain in front of stored blocks (SpecGate)

----------------------------------------------------------------------------
\* Further claims on the client queue (SpecClient)

\* C12 (as claimed): in a step that starts and ends with the client offline,
\* no fetch is started for an event that sits in the event queue or in the
\* retry queue, its attempts counter does not change, and it stays queued.
C12_NoSendWhileOffline ==
    [][(~isOnline /\ ~isOnline') =>
          \A e \in Events :
              (InQueue(eventQueue, e) \/ InQueue(retryQueue, e)) =>
                  /\ sends'[e] = sends[e]
                  /\ eventAttempts'[e] = eventAttempts[e]
                  /\ InQueue(eventQueue', e) \/ InQueue(retryQueue', e)]_vars

----------------------------------------------------------------------------
\* Claims on the page lifecycle (SpecUnload)

\* C13 (as claimed): whatever visibilitychange and beforeunload events a page
\* sees, the Session End summary and the Engagement Score are each sent through
\* sendBeacon at most once, exactly once when the page has unloaded, and
\* neither queue ever holds them.
C13_FinalSummaryOnce ==
    /\ Beacons(beaconLog, "Session", "End") <= 1
    /\ Beacons(beaconLog, "Engagement", "Score") <= 1
    /\ pageUnloaded => Beacons(beaconLog, "Session", "End") = 1
    /\ eventQueue = <<>> /\ retryQueue = <<>>

----------------------------------------------------------------------------
\* Claims on the retry timers (SpecRetry)

\* C14 (as claimed): an event whose attempt has failed (its attempts counter is
\* k > 0) is not fetched again earlier than retryDelay * k after that failure,
\* also when other events wait in the retry queue.
C14_RetryNotBeforeDelay ==
    [][\A e \in Events :
          (sends'[e] > sends[e] /\ eventAttempts[e] > 0) =>
              now >= failedAt[e] + retryDelay * eventAttempts[e]]_vars

----------------------------------------------------------------------------
\* Further claims on the ip_blocks table (SpecBlockDb)

\* C15 (as claimed): a blockIP call for an ip without a record creates one
\* with attempts = 1; for an ip with a record it adds exactly 1 to attempts,
\* sets blocked_at to the time of the call, and the new blocked_until is never
\* earlier than the previous one, whatever minutes is.
C15_UpsertExtends ==
    [][\A ip \in IPs :
          (/\ ip \in DOMAIN ip_blocks'
           /\ (ip \in DOMAIN ip_blocks => ip_blocks'[ip] # ip_blocks[ip])) =>
              IF ip \notin DOMAIN ip_blocks
              THEN ip_blocks'[ip].attempts = 1
              ELSE /\ ip_blocks'[ip].attempts = ip_blocks[ip].attempts + 1
                   /\ ip_blocks'[ip].blocked_at = Datetime(now)
                   /\ ip_blocks'[ip].blocked_until >= ip_blocks[ip].blocked_until]_vars

\* C16 (as claimed): isIPBlocked(ip) answers blocked = true exactly when a
\* record of ip exists and the time of the call is before its blocked_until; at
\* the time blocked_until itself the answer is blocked = false.
C16_BlockedIffBeforeUntil ==
    dbLast.op = "isIPBlocked" =>
        (dbLast.result <=> (dbLast.hadRecord /\ dbLast.at < dbLast.prevUntil))

----------------------------------------------------------------------------
\* Further claims on the server (SpecServer)

\* C17: a step creates a record of ip in ip_blocks only when it raises the
\* suspicious-attempt counter of ip to MAX_SUSPICIOUS_ATTEMPTS or more, and
\* removes one only when its blocked_until has passed (a read or the sweep
\* noticed it) or when it is an authorised unblock request naming ip; a record
\* is replaced only when both hold (expired, then blocked again).  No step of
\* the server is an administrative block.
C17_OnlyListedTransitions ==
    [][\A ip \in IPs :
          LET had     == ip \in DOMAIN ip_blocks
              has     == ip \in DOMAIN ip_blocks'
              before  == IF ip \in DOMAIN ipAttempts THEN ipAttempts[ip].count ELSE 0
              crossed == /\ ip \in DOMAIN ipAttempts'
                         /\ ipAttempts'[ip].count = before + 1
                         /\ ipAttempts'[ip].count >= MAX_SUSPICIOUS_ATTEMPTS
              expired == ip_blocks[ip].blocked_until < now
              unblock == /\ resp'.route = "unblock" /\ resp'.keyValid
                         /\ resp'.target = ip /\ resp'.stage = "handler"
                         /\ resp'.at = now
          IN  /\ (~had /\ has) => crossed
              /\ (had /\ ~has) => (expired \/ unblock)
              /\ (had /\ has /\ ip_blocks'[ip] # ip_blocks[ip]) => (expired /\ crossed)]_vars

\* an authorised unblock request has just removed the record that a threshold
\* crossing had created, before it expired
C17_Witness ==
    /\ resp.route = "unblock" /\ resp.stage = "handler" /\ resp.keyValid
    /\ resp.hadRecord /\ resp.at <= resp.prevUntil
    /\ resp.target \notin DOMAIN ip_blocks

\* C18: a step that raises the suspicious-attempt count of ip raises it by
\* exactly 1; the call returned true (the request is answered 429 "Troppi
\* tentativi") exactly when the count after it is MAX_SUSPICIOUS_ATTEMPTS or
\* more, and exactly then ip has a block of IP_BLOCK_DURATION_MINUTES from now;
\* the counters of the other IPs are as before.
C18_IncrementByOneThenBlock ==
    [][\A ip \in IPs :
          LET before == IF ip \in DOMAIN ipAttempts THEN ipAttempts[ip].count ELSE 0
              after  == IF ip \in DOMAIN ipAttempts' THEN ipAttempts'[ip].count ELSE 0
              true   == /\ resp'.ip = ip /\ resp'.stage = "adminAuth"
                        /\ resp'.status = 429 /\ resp'.message = TooManyMessage
              false  == /\ resp'.ip = ip /\ resp'.stage = "adminAuth"
                        /\ resp'.status = 401
              block  == /\ ip \in DOMAIN ip_blocks'
                        /\ ip_blocks'[ip].blocked_until = now + IP_BLOCK_DURATION_MINUTES
                        /\ ip_blocks'[ip].blocked_at = Datetime(now)
          IN  after > before =>
                  /\ after = before + 1
                  /\ ipAttempts'[ip].lastAttempt = now
                  /\ IF after >= MAX_SUSPICIOUS_ATTEMPTS
                     THEN true /\ block
                     ELSE false /\ ip \notin DOMAIN ip_blocks'
                  /\ \A other \in IPs \ {ip} :
                        /\ other \in DOMAIN ipAttempts' <=> other \in DOMAIN ipAttempts
                        /\ other \in DOMAIN ipAttempts =>
                               ipAttempts'[other] = ipAttempts[other]]_vars

\* the increment that reaches the threshold for one ip, while the other ip has
\* a counter of its own
C18_Witness ==
    /\ resp.ip \in IPs /\ resp.stage = "adminAuth" /\ resp.status = 429
    /\ resp.countBefore + 1 = MAX_SUSPICIOUS_ATTEMPTS
    /\ resp.ip \in DOMAIN ip_blocks
    /\ \E other \in IPs \ {resp.ip} :
          other \in DOMAIN ipAttempts /\ ipAttempts[other].count > 0

----------------------------------------------------------------------------
\* Further claims on the rate limit gate (SpecRateLimit)

----------------------------------------------------------------------------
\* Claims on the analytics ingestion endpoints (SpecIngest)

\* C20 (as claimed): a request to pageview, event, puzzle or form whose payload
\* lacks a required field is answered with a 4xx status and leaves every
\* analytics table as it was, and a response with success = true is given only
\* when the row was persisted.
C20_MalformedRejected ==
    ingestLast.endpoint # "none" =>
        /\ ingestLast.malformed =>
               /\ ingestLast.status \in 400..499
               /\ ~ingestLast.changed
        /\ ingestLast.success => ingestLast.persisted

----------------------------------------------------------------------------
\* Further claims on the analytics client (SpecClient)

\* C21: a step that starts a flush of the buffer happens online, takes the
\* whole buffer of that moment, in enqueue order, as one call and leaves the
\* buffer empty, and fetches the first event of the call; when the fetch of a
\* call settles, delivered or failed, the call goes on with the fetch of its
\* next event and with nothing else; an event enqueued while calls are in
\* flight joins none of them: it is in the buffer, or in the call of a new
\* flush that its own enqueue started.
C21_SnapshotFlush ==
    [][LET e      == nextId'
           queued == nextId' # nextId
           pushed == IF queued THEN Append(eventQueue, e) ELSE eventQueue
       IN  /\ \A c \in inFlight' \ inFlight :
                  InQueue(pushed, Head(c)) =>
                      /\ isOnline'
                      /\ c = pushed
                      /\ eventQueue' = <<>>
                      /\ sends'[Head(c)] = sends[Head(c)] + 1
                      /\ \A i \in 2..Len(c) : sends'[c[i]] = sends[c[i]]
           /\ \A c \in inFlight \ inFlight' :
                  \/ Tail(c) = <<>>
                  \/ /\ Tail(c) \in inFlight'
                     /\ sends'[Head(Tail(c))] = sends[Head(Tail(c))] + 1
           /\ \A x \in Events :
                  (InQueue(eventQueue, x) /\ ~InQueue(eventQueue', x)) =>
                      InCall(inFlight' \ inFlight, x)
           /\ queued =>
                  /\ \A c \in inFlight : c \in inFlight' /\ ~InQueue(c, e)
                  /\ InQueue(eventQueue', e) \/ InCall(inFlight' \ inFlight, e)]_vars

\* the first event of a flush has failed, the flush goes on with its second
\* event, and an event enqueued meanwhile waits in the buffer
C21_Witness ==
    /\ inFlight = {<<2>>}
    /\ eventAttempts[1] = 1
    /\ sends[2] = 1
    /\ eventQueue = <<3>>

----------------------------------------------------------------------------
\* Claims on the cleanup of rate_limits (SpecRateLimit)

\* C22: for a key checked with the one-hour window, a checkRateLimit call
\* returns the same allowed and remaining as the same call does on the table
\* that the same calls built with no cleanup ever run, however many cleanups
\* ran and whenever; and a second cleanup at the same time deletes nothing
\* that the first left.
C22_CleanupTransparent ==
    /\ (rlLast.key \in RLKeys /\ rlCfg[rlLast.key].windowMs = HOUR) =>
           /\ rlLast.result.allowed = uncleanedLast.result.allowed
           /\ rlLast.result.remaining = uncleanedLast.result.remaining
    /\ deleteOldRateLimits(deleteOldRateLimits(rate_limits, now), now) =
           deleteOldRateLimits(rate_limits, now)

\* a check of a one-hour key whose row a cleanup had deleted: the call
\* inserts a row where, without the cleanup, it would have reset the old one
C22_Witness ==
    /\ rlLast.key \in RLKeys
    /\ rlCfg[rlLast.key].windowMs = HOUR
    /\ rlLast.branch = "insert"
    /\ uncleanedLast.branch = "reset"

\* C23 (as claimed): in every row of rate_limits window_start <= last_request,
\* and the row of the key of the latest checkRateLimit call has last_request
\* equal to the time of that call, whichever branch the call took.
C23_LastRequestIsLatestCall ==
    \A k \in DOMAIN rate_limits :
        /\ rate_limits[k].window_start <= rate_limits[k].last_request
        /\ rlLast.key = k => rate_limits[k].last_request = rlLast.at

----------------------------------------------------------------------------
\* Claims on bursts (SpecBurst)

RECURSIVE AllowedIn(_, _)
\* the calls that returned allowed at the times from..to
AllowedIn(from, to) ==
    IF from > to \/ from > MaxTime THEN 0
    ELSE allowedAt[from] + AllowedIn(from + 1, to)

\* the densest burst around a window boundary: the window that opened
\* windowMs + 1 ago got its other maxRequests - 1 allowed calls at its last
\* instant, and the window that opened now is already full
BoundaryBurst ==
    LET max == rlCfg["k"].maxRequests
        w   == rlCfg["k"].windowMs
    IN  /\ "k" \in DOMAIN rate_limits
        /\ rate_limits["k"].window_start = now
        /\ rate_limits["k"].count = max
        /\ now - w - 1 >= 0
        /\ AllowedIn(now - w - 1, now - w - 1) >= 1
        /\ AllowedIn(now - w - 1, now - 1) = max
        /\ AllowedIn(now - 1, now - 1) >= max - 1

----------------------------------------------------------------------------
\* Claims on repeated blocks (SpecServer)

\* C25 (as claimed): a request that blocks again an ip whose expired record
\* is still in ip_blocks leaves a record whose attempts is one more than
\* before, hence greater than 1: the count of the block triggers of that ip.
C25_ReblockKeepsHistory ==
    [][\A ip \in IPs :
          (/\ ip \in DOMAIN ip_blocks
           /\ ip \in DOMAIN ip_blocks'
           /\ ip_blocks'[ip] # ip_blocks[ip]) =>
              /\ ip_blocks'[ip].attempts = ip_blocks[ip].attempts + 1
              /\ ip_blocks'[ip].attempts > 1]_vars

\* C26: a step that blocks ip leaves the counter of ip at
\* MAX_SUSPICIOUS_ATTEMPTS or more (it is not reset), and a step that raises a
\* counter that had already reached MAX_SUSPICIOUS_ATTEMPTS (the earlier block
\* has expired, or the request would not have passed the gate) blocks ip again
\* at once and is answered 429 by adminAuthMiddleware.
C26_CounterSurvivesBlock ==
    [][\A ip \in IPs :
          LET before  == IF ip \in DOMAIN ipAttempts THEN ipAttempts[ip].count ELSE 0
              after   == IF ip \in DOMAIN ipAttempts' THEN ipAttempts'[ip].count ELSE 0
              blocked == /\ ip \in DOMAIN ip_blocks'
                         /\ ip \in DOMAIN ip_blocks => ip_blocks'[ip] # ip_blocks[ip]
          IN  /\ blocked => after >= MAX_SUSPICIOUS_ATTEMPTS
              /\ (before >= MAX_SUSPICIOUS_ATTEMPTS /\ after > before) =>
                     /\ blocked
                     /\ ip_blocks'[ip].blocked_until = now + IP_BLOCK_DURATION_MINUTES
                     /\ resp'.ip = ip /\ resp'.stage = "adminAuth"
                     /\ resp'.status = 429]_vars

\* the one further invalid attempt after the first block has expired: the
\* counter was at MAX_SUSPICIOUS_ATTEMPTS and the ip is blocked again
C26_Witness ==
    /\ resp.ip \in IPs /\ resp.stage = "adminAuth" /\ resp.status = 429
    /\ resp.countBefore = MAX_SUSPICIOUS_ATTEMPTS
    /\ resp.gatedUntil # NoBlock /\ resp.gatedUntil < resp.at
    /\ resp.ip \in DOMAIN ip_blocks
    /\ ip_blocks[resp.ip].blocked_until = resp.at + IP_BLOCK_DURATION_MINUTES

----------------------------------------------------------------------------
\* Further claims on the registration endpoint (SpecIscrizione)

\* C27: a registration request that the email check denies changes no row of
\* rate_limits, the row of its ip key included, and no registration; a request
\* that the email check allows and that the ip check then denies, or whose
\* createIscrizione then fails, makes no registration and still leaves the row
\* of its email key opened at the time of the request with count 1, so that
\* the email check denies the same email at every time of the following hour.
C27_CountersNotRolledBack ==
    [][LET r    == regLast'
           ek   == EmailKey(r.email)
           made == \/ regLast' # regLast
                   \/ /\ rate_limits' # rate_limits
                      /\ DOMAIN rate_limits \subseteq DOMAIN rate_limits'
       IN  made =>
             /\ (r.emailChecked /\ ~r.emailAllowed) =>
                    /\ rate_limits' = rate_limits
                    /\ iscrizioni' = iscrizioni
                    /\ ~r.ipChecked
             /\ (r.emailChecked /\ r.emailAllowed /\ (~r.ipAllowed \/ r.status = 400)) =>
                    /\ iscrizioni' = iscrizioni
                    /\ ek \in DOMAIN rate_limits'
                    /\ rate_limits'[ek].count = 1
                    /\ rate_limits'[ek].window_start = now
                    /\ \A t \in now..(now + HOUR) :
                          ~emailGate(rate_limits', ek, t).result.allowed]_vars

\* the retry of an email whose first request the ip check had denied: the
\* email check denies it, and no registration with that email exists
C27_Witness ==
    /\ regLast.email \in Emails
    /\ regLast.emailChecked /\ ~regLast.emailAllowed
    /\ regLast.status = 429
    /\ regLast.email \notin iscrizioni
    /\ EmailKey(regLast.email) \in DOMAIN rate_limits
    /\ IpKey("ip1") \in DOMAIN rate_limits
    /\ rate_limits[IpKey("ip1")].count = IpMax

----------------------------------------------------------------------------
\* Claims on the interleavings of the client (SpecClient)

\* the places that hold event e: positions of the buffer, positions of the
\* retry queue, and positions of the calls in flight (a call is the part of its
\* snapshot that it has not finished sending; its head is being fetched)
Held(queue, e) == Cardinality({i \in 1..Len(queue) : queue[i] = e})

HeldInCalls(calls, e) ==
    Cardinality({p \in UNION {{<<c, i>> : i \in 1..Len(c)} : c \in calls} :
                    p[1][p[2]] = e})

Sending(calls, e) == Cardinality({c \in calls : Head(c) = e})

\* C28: whatever the order of enqueues, size and timer flushes, retry timers,
\* settled fetches and online/offline events, every event is held in at most
\* one place among the buffer, the retry queue and the calls in flight, at most
\* one call is fetching it, and it has been delivered at most once.
C28_OnePlaceOneSendOneDelivery ==
    \A e \in Events :
        /\ Held(eventQueue, e) + Held(retryQueue, e) + HeldInCalls(inFlight, e) <= 1
        /\ Sending(inFlight, e) <= 1
        /\ delivered[e] <= 1

\* two calls are fetching at once, the flush on its second event and the retry
\* of its failed first event, while a third event waits in the buffer
C28_Witness ==
    /\ inFlight = {<<1>>, <<2>>}
    /\ eventAttempts[1] = 1
    /\ sends[1] = 2
    /\ eventQueue = <<3>>
    /\ retryQueue = <<>>

----------------------------------------------------------------------------
\* Claims on the progress of the online client (SpecOnlineLive)

\* event e has left the client for good
Settled(e) == delivered[e] >= 1 \/ e \in dropped

Drained == eventQueue = <<>> /\ retryQueue = <<>> /\ inFlight = {}

\* C29: on a client that stays online, with the batch timer and the retry
\* timers firing and every fetch settling, every event that queueEvent has
\* enqueued is eventually delivered or dropped, and from some point on (no
\* later than when the last enqueue is over) the buffer and the retry queue
\* are empty and no call is in flight.
C29_EveryEventLeaves ==
    /\ \A e \in Events : (nextId >= e) ~> Settled(e)
    /\ <>[]Drained

\* every event that could be enqueued has been, each is delivered or dropped,
\* one of them was delivered at its retry and one was dropped after its retry
\* failed too, and nothing is left in the client
C29_Witness ==
    /\ nextId = MaxBatched
    /\ Drained
    /\ retryTimers = 0
    /\ \A e \in 1..nextId : Settled(e)
    /\ \E e \in 1..nextId : delivered[e] = 1 /\ eventAttempts[e] >= 1
    /\ \E e \in dropped : eventAttempts[e] = retryAttempts /\ delivered[e] = 0

----------------------------------------------------------------------------
\* Claims on what changes the suspicious-attempt counters (SpecServer)

\* C30: a step changes the entry of ip in ipAttempts (its presence or its
\* count) only as the request of ip that adminAuthMiddleware rejects for its
\* key, which raises the count by 1; as the sweep, which removes an entry
\* whose last attempt is more than an hour old; or as an authorised unblock
\* request naming ip, which removes the entry.  A request that the block gate
\* rejects, a request to a public route, and an admin request that carries a
\* valid key and names no ip leave every counter as it was.
C30_CounterChangesOnlyAsListed ==
    [][LET r == resp'
       IN  /\ \A ip \in IPs :
                 LET had     == ip \in DOMAIN ipAttempts
                     has     == ip \in DOMAIN ipAttempts'
                     before  == IF had THEN ipAttempts[ip].count ELSE 0
                     after   == IF has THEN ipAttempts'[ip].count ELSE 0
                     invalid == /\ r.ip = ip /\ r.at = now /\ ~r.keyValid
                                /\ r.route \in {"admin", "unblock"}
                                /\ r.stage = "adminAuth"
                                /\ has /\ after = before + 1
                     sweep   == /\ had /\ ~has
                                /\ now - ipAttempts[ip].lastAttempt > HOUR
                                /\ resp' = resp
                     unblock == /\ r.route = "unblock" /\ r.keyValid /\ r.at = now
                                /\ r.target = ip /\ r.stage = "handler"
                                /\ had /\ ~has
                 IN  (had # has \/ after # before) => (invalid \/ sweep \/ unblock)
           /\ (/\ r # resp
               /\ \/ r.stage = "blockGate"
                  \/ r.route = "public"
                  \/ r.stage = "handler" /\ r.keyValid /\ r.target = "none")
              => ipAttempts' = ipAttempts]_vars

\* a request with a valid admin key has been served for an ip that stands one
\* failure short of a block: its counter is where the failures left it
C30_Witness ==
    /\ resp.route = "admin" /\ resp.keyValid /\ resp.stage = "handler"
    /\ resp.status = 200
    /\ resp.countBefore = MAX_SUSPICIOUS_ATTEMPTS - 1
    /\ resp.ip \in DOMAIN ipAttempts
    /\ ipAttempts[resp.ip].count = MAX_SUSPICIOUS_ATTEMPTS - 1
    /\ resp.ip \notin DOMAIN ip_blocks

====
